---- MODULE Spec2Model ----
(***************************************************************************)
(* Model of the M-30 traffic pipeline: DataPreprocessor (clean_data,       *)
(* create_features, get_quality_report), TrafficPhysics (critical density, *)
(* max capacity) and TrafficOptimizer (optimize_traffic).                  *)
(*                                                                         *)
(* A table (pandas DataFrame) is a sequence of rows; a row is a record     *)
(* that carries its index label idx (the position of the row in the raw    *)
(* table, which pandas keeps through filtering and sorting).               *)
(* A number (float) is a pair <<n, d>>: the rational n/d in lowest terms   *)
(* with d > 0, or NaN, the pair <<0, 0>>.                                  *)
(***************************************************************************)
EXTENDS Integers, Sequences, FiniteSets, TLC

(***************************************************************************)
(* Floats.                                                                 *)
(***************************************************************************)
NaN == <<0, 0>>

IsNaN(a) == a[2] = 0

Abs(n) == IF n < 0 THEN -n ELSE n

RECURSIVE Gcd(_, _)
Gcd(a, b) == IF b = 0 THEN a ELSE Gcd(b, a % b)

\* n/d in lowest terms, d # 0
Rat(n, d) ==
    LET g == Gcd(Abs(n), Abs(d))
        s == IF d < 0 THEN -1 ELSE 1
    IN  <<(s * n) \div g, (s * d) \div g>>

\* the float of an integer
F(n) == <<n, 1>>

\* comparisons: every comparison with NaN is false
RLt(a, b) == ~IsNaN(a) /\ ~IsNaN(b) /\ a[1] * b[2] < b[1] * a[2]
RLe(a, b) == ~IsNaN(a) /\ ~IsNaN(b) /\ a[1] * b[2] <= b[1] * a[2]
RGt(a, b) == RLt(b, a)
RGe(a, b) == RLe(b, a)
REq(a, b) == ~IsNaN(a) /\ ~IsNaN(b) /\ a = b

RAdd(a, b) ==
    IF IsNaN(a) \/ IsNaN(b) THEN NaN
    ELSE Rat(a[1] * b[2] + b[1] * a[2], a[2] * b[2])
RSub(a, b) ==
    IF IsNaN(a) \/ IsNaN(b) THEN NaN
    ELSE Rat(a[1] * b[2] - b[1] * a[2], a[2] * b[2])
RMul(a, b) ==
    IF IsNaN(a) \/ IsNaN(b) THEN NaN
    ELSE Rat(a[1] * b[1], a[2] * b[2])
\* a / b for b # 0 (every division of the program is guarded)
RDiv(a, b) ==
    IF IsNaN(a) \/ IsNaN(b) THEN NaN
    ELSE Rat(a[1] * b[2], a[2] * b[1])

\* Python's min(a, b) and max(a, b): the first argument unless the second
\* compares strictly below (above) it.
PyMin(a, b) == IF RLt(b, a) THEN b ELSE a
PyMax(a, b) == IF RGt(b, a) THEN b ELSE a

\* floor of a non-NaN float, as an integer (\div rounds toward minus infinity)
Floor(a) == a[1] \div a[2]

(***************************************************************************)
(* Bounds of the model and the input tables.                               *)
(***************************************************************************)
MaxRows == 3

VARIABLES
    raw,             \* the raw table the caller loaded (load_csv_data)
    has_ocupacion,   \* whether the table has the optional 'ocupacion' column
    sensor_ids,      \* DataPreprocessor.sensor_ids (NoFilter is None)
    quality_report,  \* DataPreprocessor.quality_report
    clean_called,    \* whether clean_data has been called on the instance
    last_df,         \* the argument of the most recent clean_data call
    df_clean,        \* what the most recent clean_data call returned
    df_features,     \* what the most recent create_features call returned
    optimizer,       \* the TrafficOptimizer instance (NoOptimizer before construction)
    opt_input,       \* the argument of the most recent optimize_traffic call
    df_opt           \* what the most recent optimize_traffic call returned

vars == <<raw, has_ocupacion, sensor_ids, quality_report, clean_called, last_df,
          df_clean, df_features, optimizer, opt_input, df_opt>>

\* an optional argument: None, or a given value
None == [given |-> FALSE, value |-> NaN]
Some(x) == [given |-> TRUE, value |-> x]

\* sensor_ids: None, or the collection of the sensor ids to keep
NoFilter == [given |-> FALSE, ids |-> {}]
Filter(S) == [given |-> TRUE, ids |-> S]

\* the empty dict
EmptyReport == [k \in {} |-> 0]

\* pd.to_datetime(..., errors='coerce'): the minutes after midnight of a
\* timestamp text in either accepted spelling, NaT for an unparseable text
NaT == -1
to_datetime(text) ==
    CASE text = "00:00" -> 0
      [] text = "00:15" -> 15
      [] text = "0:15"  -> 15
      [] text = "00:30" -> 30
      [] text = "00:45" -> 45
      [] text = "01:00" -> 60
      [] OTHER -> NaT

\* the table of the rows f[1..n], each labelled with its position
MkTable(f) ==
    [i \in DOMAIN f |->
        [idx |-> i, id |-> f[i].id, fecha |-> f[i].fecha, vmed |-> f[i].vmed,
         intensidad |-> f[i].intensidad, ocupacion |-> f[i].ocupacion]]

(***************************************************************************)
(* DataPreprocessor.clean_data                                             *)
(***************************************************************************)
\* step 1: df[df['id'].isin(valid_ids)], or the whole table without a filter
FilterSensors(df, ids) ==
    IF ~ids.given THEN df
    ELSE SelectSeq(df, LAMBDA r : r.id \in ids.ids)

\* step 2: df_clean['fecha'] = pd.to_datetime(df_clean['fecha'], errors='coerce')
ParseDates(df) ==
    [i \in DOMAIN df |-> [df[i] EXCEPT !.fecha = to_datetime(df[i].fecha)]]

\* the order of sort_values(by=['id', 'fecha']): by id, then by timestamp
\* with NaT last
KeyLess(a, b) ==
    \/ a.id < b.id
    \/ /\ a.id = b.id
       /\ a.fecha # NaT
       /\ (b.fecha = NaT \/ a.fecha < b.fecha)

\* step 3: sort_values(by=['id', 'fecha']); rows with equal keys keep their
\* relative order (the multi-column sort is a stable lexsort)
sort_values(df) ==
    LET n == Len(df)
        Rank(i) == Cardinality({j \in 1..n :
                        KeyLess(df[j], df[i]) \/ (~KeyLess(df[i], df[j]) /\ j < i)}) + 1
    IN  [p \in 1..n |-> df[CHOOSE i \in 1..n : Rank(i) = p]]

\* the range mask without the upper limit of the speed
mask_valid_no_speed_cap(r) ==
    /\ RGe(r.vmed, F(0))
    /\ RGe(r.intensidad, F(0)) /\ RLe(r.intensidad, F(12000))

\* step 4: the range mask; a comparison with NaN is False, so a row with a
\* missing vmed or intensidad fails the mask
mask_valid(r) ==
    /\ RGe(r.vmed, F(0)) /\ RLe(r.vmed, F(150))
    /\ RGe(r.intensidad, F(0)) /\ RLe(r.intensidad, F(12000))

\* step 5: the rows with vmed == 0 and intensidad > 0
mask_zero_speed(r) == REq(r.vmed, F(0)) /\ RGt(r.intensidad, F(0))

\* the repair left out
FixLogic_skipped(df) == df

FixLogic(df) ==
    [i \in DOMAIN df |->
        IF mask_zero_speed(df[i]) THEN [df[i] EXCEPT !.intensidad = F(0)] ELSE df[i]]

\* Series.interpolate(method='linear', limit=limit) at position i of the
\* series s: values are equally spaced; a NaN is filled when a valid value
\* precedes it by at most limit positions, linearly towards the next valid
\* value, or with the last valid value when none follows; leading NaNs stay.
InterpolateAt(s, i, limit) ==
    IF ~IsNaN(s[i]) THEN s[i]
    ELSE
        LET before == {p \in 1..(i - 1) : ~IsNaN(s[p])}
            after  == {q \in (i + 1)..Len(s) : ~IsNaN(s[q])}
        IN  IF before = {} THEN NaN
            ELSE
                LET p == CHOOSE x \in before : \A y \in before : y <= x
                IN  IF i - p > limit THEN NaN
                    ELSE IF after = {} THEN s[p]
                    ELSE
                        LET q == CHOOSE x \in after : \A y \in after : x <= y
                        IN  RAdd(s[p], RMul(RSub(s[q], s[p]), Rat(i - p, q - p)))

interpolate(s, limit) == [i \in DOMAIN s |-> InterpolateAt(s, i, limit)]

\* the positions of the rows of sensor id, in table order
GroupPositions(df, id) == SelectSeq([i \in DOMAIN df |-> i], LAMBDA i : df[i].id = id)

\* step 6: groupby('id')[col].transform(lambda x: x.interpolate('linear', limit=2))
\* for both columns
InterpolateGroups(df) ==
    [i \in DOMAIN df |->
        LET g == GroupPositions(df, df[i].id)
            k == CHOOSE k \in DOMAIN g : g[k] = i
            v == interpolate([j \in DOMAIN g |-> df[g[j]].vmed], 2)
            q == interpolate([j \in DOMAIN g |-> df[g[j]].intensidad], 2)
        IN  [df[i] EXCEPT !.vmed = v[k], !.intensidad = q[k]]]

\* step 7: dropna(subset=['vmed', 'intensidad'])
dropna(df) == SelectSeq(df, LAMBDA r : ~IsNaN(r.vmed) /\ ~IsNaN(r.intensidad))

\* round((final / initial) * 100, 2): the percentage rounded to the nearest
\* hundredth (no ratio of row counts below 32 falls on a tie)
PctKept(final, initial) ==
    IF initial > 0
    THEN Rat((final * 20000 + initial) \div (2 * initial), 100)
    ELSE F(0)

\* the table after steps 1 to 3
Sorted(df, ids) == sort_values(ParseDates(FilterSensors(df, ids)))

\* clean_data on a non-empty table: the returned table and the report
clean_data(df, ids) ==
    LET df_sorted == Sorted(df, ids)
        n_outliers == Len(SelectSeq(df_sorted, LAMBDA r : ~mask_valid(r)))
        df_valid == SelectSeq(df_sorted, mask_valid)
        n_logic_fix == Len(SelectSeq(df_valid, mask_zero_speed))
        result == dropna(InterpolateGroups(FixLogic(df_valid)))
    IN  [df_clean |-> result,
         quality_report |->
            [initial_rows |-> Len(df),
             final_rows |-> Len(result),
             outliers_removed |-> n_outliers,
             logic_errors_fixed |-> n_logic_fix,
             pct_data_kept |-> PctKept(Len(result), Len(df))]]

\* DataPreprocessor.clean_data(df): an empty table is returned as it is and
\* the report is left alone; otherwise the cleaned table is returned and the
\* report replaced
CleanData(df) ==
    /\ clean_called' = TRUE
    /\ last_df' = df
    /\ IF Len(df) = 0
       THEN /\ df_clean' = df
            /\ UNCHANGED quality_report
       ELSE LET res == clean_data(df, sensor_ids)
            IN  /\ df_clean' = res.df_clean
                /\ quality_report' = res.quality_report
    /\ UNCHANGED <<raw, has_ocupacion, sensor_ids, df_features, optimizer, opt_input, df_opt>>

\* DataPreprocessor.get_quality_report()
get_quality_report == quality_report

(***************************************************************************)
(* DataPreprocessor.create_features                                        *)
(***************************************************************************)
\* the density with the speed floored at 1 instead of 10
Density_floor_1(r, has_occ) ==
    LET condition_normal == RGt(r.vmed, F(10))
        safe_speed == IF RLt(r.vmed, F(1)) THEN F(1) ELSE r.vmed
        k_qv == RDiv(r.intensidad, safe_speed)
        k_occ == IF has_occ THEN RMul(r.ocupacion, Rat(7, 2)) ELSE k_qv
        k == IF condition_normal THEN k_qv ELSE k_occ
    IN  IF RGt(k, F(500)) THEN F(500) ELSE k

\* the occupancy estimate used on every congested row (speed <= 40)
Density_occ_congested(r, has_occ) ==
    LET condition_normal == RGt(r.vmed, F(40))
        safe_speed == IF RLt(r.vmed, F(10)) THEN F(10) ELSE r.vmed
        k_qv == RDiv(r.intensidad, safe_speed)
        k_occ == IF has_occ THEN RMul(r.ocupacion, Rat(7, 2)) ELSE k_qv
        k == IF condition_normal THEN k_qv ELSE k_occ
    IN  IF RGt(k, F(500)) THEN F(500) ELSE k

\* density of one row: Q / max(V, 10) in normal flow; at V <= 10 the
\* occupancy estimate when the column exists, else the same clipped ratio;
\* then clipped from above at 500 (clip leaves NaN and negative values)
Density(r, has_occ) ==
    LET condition_normal == RGt(r.vmed, F(10))
        safe_speed == IF RLt(r.vmed, F(10)) THEN F(10) ELSE r.vmed
        k_qv == RDiv(r.intensidad, safe_speed)
        k_occ == IF has_occ THEN RMul(r.ocupacion, Rat(7, 2)) ELSE k_qv
        k == IF condition_normal THEN k_qv ELSE k_occ
    IN  IF RGt(k, F(500)) THEN F(500) ELSE k

\* the thresholds taken as inclusive
categorize_state_inclusive(r) ==
    IF RGe(r.vmed, F(70)) THEN "Fluido"
    ELSE IF RGe(r.vmed, F(40)) THEN "Denso"
    ELSE "Congestion"

categorize_state(r) ==
    IF RGt(r.vmed, F(70)) THEN "Fluido"
    ELSE IF RGt(r.vmed, F(40)) THEN "Denso"
    ELSE "Congestion"

\* the columns computed row by row, before the sort
WithDensity(df, has_occ) ==
    [i \in DOMAIN df |->
        [idx |-> df[i].idx, id |-> df[i].id, fecha |-> df[i].fecha,
         vmed |-> df[i].vmed, intensidad |-> df[i].intensidad,
         ocupacion |-> df[i].ocupacion,
         density |-> Density(df[i], has_occ),
         traffic_state |-> categorize_state(df[i]),
         density_pred |-> NaN]]

\* groupby('id')['density'].shift(-1): the density of the next row of the
\* same sensor, NaN on the last row of each sensor
ShiftedDensity(df, i) ==
    IF i < Len(df) /\ df[i + 1].id = df[i].id THEN df[i + 1].density ELSE NaN

\* .fillna(method='ffill') on the whole shifted column (not per sensor):
\* a NaN takes the last value before it in table order that is not NaN
FfillAt(s, i) ==
    LET before == {p \in 1..i : ~IsNaN(s[p])}
    IN  IF before = {} THEN NaN
        ELSE s[CHOOSE x \in before : \A y \in before : y <= x]

density_pred(df) ==
    LET shifted == [i \in DOMAIN df |-> ShiftedDensity(df, i)]
    IN  [i \in DOMAIN df |-> FfillAt(shifted, i)]

\* the rows without a density dropped before the sort
create_features_dropna(df, has_occ) ==
    LET kept == SelectSeq(WithDensity(df, has_occ), LAMBDA r : ~IsNaN(r.density))
        sorted == sort_values(kept)
        pred == density_pred(sorted)
    IN  [i \in DOMAIN sorted |-> [sorted[i] EXCEPT !.density_pred = pred[i]]]

\* create_features(df) for a non-empty cleaned table. The time-of-day and
\* rolling columns (hour, day_of_week, is_rush_hour, vmed_rolling_mean,
\* vmed_volatility, flow_trend) are derived columns no other code reads;
\* they are left out of the row.
create_features(df, has_occ) ==
    LET sorted == sort_values(WithDensity(df, has_occ))
        pred == density_pred(sorted)
    IN  [i \in DOMAIN sorted |-> [sorted[i] EXCEPT !.density_pred = pred[i]]]

CreateFeatures ==
    /\ clean_called
    /\ Len(df_clean) > 0
    /\ df_features' = create_features(df_clean, has_ocupacion)
    /\ UNCHANGED <<raw, has_ocupacion, sensor_ids, quality_report, clean_called,
                   last_df, df_clean, optimizer, opt_input, df_opt>>

(***************************************************************************)
(* TrafficPhysics                                                          *)
(***************************************************************************)
RECURSIVE SumFlow(_)
SumFlow(s) == IF s = <<>> THEN F(0) ELSE RAdd(Head(s).intensidad, SumFlow(Tail(s)))

\* the centre of the bin returned instead of its lower edge
calculate_critical_density_center(df) ==
    LET data == SelectSeq(df, LAMBDA r : ~IsNaN(r.density) /\ ~IsNaN(r.intensidad))
        density_bin(r) == Floor(RDiv(r.density, F(5))) * 5
        bins == {density_bin(data[i]) : i \in DOMAIN data}
        avg_flow(b) ==
            LET g == SelectSeq(data, LAMBDA r : density_bin(r) = b)
            IN  RDiv(SumFlow(g), F(Len(g)))
    IN  IF Len(data) = 0 THEN F(40)
        ELSE RAdd(F(CHOOSE b \in bins :
                       \A c \in bins : /\ RLe(avg_flow(c), avg_flow(b))
                                       /\ (avg_flow(c) = avg_flow(b) => b <= c)),
                  Rat(5, 2))

\* calculate_critical_density(df): 40.0 without valid pairs, else the lower
\* edge of the 5-wide density bin with the highest mean flow (the lowest
\* such bin on a tie: idxmax takes the first of the sorted groups)
calculate_critical_density(df) ==
    LET data == SelectSeq(df, LAMBDA r : ~IsNaN(r.density) /\ ~IsNaN(r.intensidad))
        density_bin(r) == Floor(RDiv(r.density, F(5))) * 5
        bins == {density_bin(data[i]) : i \in DOMAIN data}
        avg_flow(b) ==
            LET g == SelectSeq(data, LAMBDA r : density_bin(r) = b)
            IN  RDiv(SumFlow(g), F(Len(g)))
    IN  IF Len(data) = 0 THEN F(40)
        ELSE F(CHOOSE b \in bins :
                  \A c \in bins : /\ RLe(avg_flow(c), avg_flow(b))
                                  /\ (avg_flow(c) = avg_flow(b) => b <= c))

\* the floats of s in ascending order
SortFloats(s) ==
    LET n == Len(s)
        Rank(i) == Cardinality({j \in 1..n : RLt(s[j], s[i]) \/ (s[j] = s[i] /\ j < i)}) + 1
    IN  [p \in 1..n |-> s[CHOOSE i \in 1..n : Rank(i) = p]]

\* calculate_max_capacity(df): Series.quantile(0.99) with linear
\* interpolation between the two closest ranks; NaN for an empty column
calculate_max_capacity(df) ==
    LET v == SortFloats([i \in DOMAIN df |-> df[i].intensidad])
        n == Len(v)
        lo == (99 * (n - 1)) \div 100
        frac == Rat(99 * (n - 1) - 100 * lo, 100)
    IN  IF n = 0 THEN NaN
        ELSE IF lo + 2 > n THEN v[lo + 1]
        ELSE RAdd(v[lo + 1], RMul(RSub(v[lo + 2], v[lo + 1]), frac))

(***************************************************************************)
(* TrafficOptimizer                                                        *)
(***************************************************************************)
NoOptimizer ==
    [constructed |-> FALSE, critical_density |-> None, max_capacity |-> None,
     base_speed_limit |-> 0]

\* Python's round(x) of a float: to the nearest integer, a tie to the even one
PyRound(x) ==
    LET fl == Floor(x)
        twice == RSub(RMul(x, F(2)), F(2 * fl))      \* 2 * (x - floor(x))
    IN  IF RLt(twice, F(1)) THEN fl
        ELSE IF RGt(twice, F(1)) THEN fl + 1
        ELSE IF fl % 2 = 0 THEN fl ELSE fl + 1

\* _round_speed(speed) = int(round(speed / 10.0) * 10)
_round_speed(speed) == PyRound(RDiv(speed, F(10))) * 10

\* the step-down ladder of optimize_traffic
v_vsl_target(base_speed_limit) ==
    IF base_speed_limit >= 90 THEN 70
    ELSE IF base_speed_limit >= 70 THEN 50
    ELSE 30

\* the activation threshold taken as inclusive
algoritmo_activo_inclusive(row, k_crit) == RGe(row.density, RMul(k_crit, Rat(9, 10)))

\* algoritmo_activo = densidad_real > (k_crit * 0.9)
algoritmo_activo(row, k_crit) == RGt(row.density, RMul(k_crit, Rat(9, 10)))

\* the recovered flow left without the cap at q_max
simular_escenario_uncapped(row, k_crit, q_max, base_speed_limit) ==
    IF ~algoritmo_activo(row, k_crit)
    THEN [flujo |-> row.intensidad, velocidad |-> row.vmed, limite |-> base_speed_limit]
    ELSE
        LET factor_mejora_flujo == Rat(108, 100)
            nuevo_flujo == RMul(row.intensidad, factor_mejora_flujo)
            v0 == IF RGt(row.density, F(0))
                  THEN RDiv(nuevo_flujo, row.density)
                  ELSE row.vmed
            v1 == PyMin(v0, F(base_speed_limit))
            v2 == PyMax(v1, row.vmed)
        IN  [flujo |-> nuevo_flujo, velocidad |-> v2,
             limite |-> v_vsl_target(base_speed_limit)]

\* simular_escenario(row): (flow, speed, limit) of the scenario
simular_escenario(row, k_crit, q_max, base_speed_limit) ==
    IF ~algoritmo_activo(row, k_crit)
    THEN [flujo |-> row.intensidad, velocidad |-> row.vmed, limite |-> base_speed_limit]
    ELSE
        LET factor_mejora_flujo == Rat(108, 100)   \* 1.0 + 0.10 * 0.8
            nuevo_flujo == PyMin(RMul(row.intensidad, factor_mejora_flujo), q_max)
            v0 == IF RGt(row.density, F(0))
                  THEN RDiv(nuevo_flujo, row.density)
                  ELSE row.vmed
            v1 == PyMin(v0, F(base_speed_limit))
            v2 == PyMax(v1, row.vmed)
        IN  [flujo |-> nuevo_flujo, velocidad |-> v2,
             limite |-> v_vsl_target(base_speed_limit)]

\* optimize_traffic(df) of the optimizer o on a non-empty table
optimize_traffic(o, df) ==
    LET k_crit == IF o.critical_density.given THEN o.critical_density.value
                  ELSE calculate_critical_density(df)
        q_max == IF o.max_capacity.given THEN o.max_capacity.value
                 ELSE calculate_max_capacity(df)
    IN  [i \in DOMAIN df |->
            LET res == simular_escenario(df[i], k_crit, q_max, o.base_speed_limit)
            IN  [idx |-> df[i].idx, id |-> df[i].id, fecha |-> df[i].fecha,
                 vmed |-> df[i].vmed, intensidad |-> df[i].intensidad,
                 density |-> df[i].density,
                 intensidad_opt |-> res.flujo,
                 velocidad_opt |-> _round_speed(res.velocidad),
                 limite_dinamico |-> res.limite,
                 \* what the call used, kept for the claims about it
                 k_crit |-> k_crit, q_max |-> q_max,
                 base_speed_limit |-> o.base_speed_limit]]

\* TrafficOptimizer(critical_density_override, max_capacity_override, base_speed_limit):
\* the instance is constructed once
NewOptimizer(kc, qm, base) ==
    /\ ~optimizer.constructed
    /\ optimizer' = [constructed |-> TRUE, critical_density |-> kc,
                     max_capacity |-> qm, base_speed_limit |-> base]
    /\ UNCHANGED <<raw, has_ocupacion, sensor_ids, quality_report, clean_called,
                   last_df, df_clean, df_features, opt_input, df_opt>>

\* the estimate of a call kept on the instance (self.critical_density = k_crit)
OptimizeTraffic_caching(sensor_id) ==
    /\ optimizer.constructed
    /\ \E i \in DOMAIN df_features : df_features[i].id = sensor_id
    /\ LET sensor_data == SelectSeq(df_features, LAMBDA r : r.id = sensor_id)
           out == optimize_traffic(optimizer, sensor_data)
       IN  /\ opt_input' = sensor_data
           /\ df_opt' = out
           /\ optimizer' = [optimizer EXCEPT !.critical_density = Some(out[1].k_crit)]
    /\ UNCHANGED <<raw, has_ocupacion, sensor_ids, quality_report, clean_called,
                   last_df, df_clean, df_features>>

\* optimizer.optimize_traffic(sensor_data) on the rows of one sensor of the
\* enriched table, as the drivers call it
OptimizeTraffic(sensor_id) ==
    /\ optimizer.constructed
    /\ \E i \in DOMAIN df_features : df_features[i].id = sensor_id
    /\ LET sensor_data == SelectSeq(df_features, LAMBDA r : r.id = sensor_id)
       IN  /\ opt_input' = sensor_data
           /\ df_opt' = optimize_traffic(optimizer, sensor_data)
    /\ UNCHANGED <<raw, has_ocupacion, sensor_ids, quality_report, clean_called,
                   last_df, df_clean, df_features, optimizer>>

(***************************************************************************)
(* Input tables and specifications.                                        *)
(***************************************************************************)
\* one raw row (without its index label)
Row(id, fecha, vmed, intensidad, ocupacion) ==
    [id |-> id, fecha |-> fecha, vmed |-> vmed, intensidad |-> intensidad,
     ocupacion |-> ocupacion]

\* the state after DataPreprocessor(sensor_ids) and before any call
InitWith(rows, filters, occ) ==
    /\ \E n \in 0..MaxRows : \E f \in [1..n -> rows] : raw = MkTable(f)
    /\ has_ocupacion \in occ
    /\ sensor_ids \in filters
    /\ quality_report = EmptyReport
    /\ clean_called = FALSE
    /\ last_df = <<>>
    /\ df_clean = <<>>
    /\ df_features = <<>>
    /\ optimizer = NoOptimizer
    /\ opt_input = <<>>
    /\ df_opt = <<>>

\* Cleaning: rows with valid, missing, out-of-range and inconsistent
\* readings, at the edges of the ranges, with repeated and unparseable
\* timestamps and two spellings of one instant, of two sensors
CleanRows ==
    {Row(1, "00:00", F(50), F(1000), NaN),
     Row(1, "00:15", NaN, F(1000), NaN),
     Row(1, "00:15", F(60), NaN, NaN),
     Row(1, "0:15", F(0), F(120), NaN),
     Row(1, "00:30", F(70), F(2000), NaN),
     Row(1, "00:30", F(151), F(900), NaN),
     Row(1, "00:00", F(40), F(12001), NaN),
     Row(1, "n/a", F(0), F(0), NaN),
     Row(1, "00:00", F(-1), F(800), NaN),
     Row(1, "00:30", F(150), F(-5), NaN),
     Row(2, "00:15", F(0), F(120), NaN),
     Row(2, "00:15", F(150), F(12000), NaN)}

InitClean == InitWith(CleanRows, {NoFilter, Filter({1})}, {FALSE})

\* the caller cleans the loaded table, the table without its last row, or
\* an empty table
NextClean ==
    \E k \in {0, Len(raw) - 1, Len(raw)} :
        /\ k >= 0
        /\ CleanData(SubSeq(raw, 1, k))

SpecClean == InitClean /\ [][NextClean]_vars

\* Feature engineering: rows at and around the thresholds of the traffic
\* states and of the density regimes, with and without a usable occupancy
FeatRows ==
    {Row(1, "00:00", F(80), F(1200), F(20)),
     Row(1, "00:15", F(30), F(1200), F(20)),
     Row(1, "00:30", F(5), F(100), F(20)),
     Row(1, "00:15", F(5), F(100), F(-1)),
     Row(1, "00:00", F(10), F(6000), NaN),
     Row(1, "00:30", F(70), F(700), F(30)),
     Row(1, "00:00", F(40), F(400), F(150)),
     Row(2, "00:00", F(11), F(12000), F(50)),
     Row(2, "00:15", F(0), F(120), F(150)),
     Row(2, "00:00", F(71), F(710), F(10)),
     Row(2, "00:30", F(41), F(820), NaN)}

InitFeat == InitWith(FeatRows, {NoFilter}, BOOLEAN)

\* the drivers' sequence: clean the loaded table, then enrich what came out
NextFeat ==
    \/ CleanData(raw)
    \/ CreateFeatures

SpecFeat == InitFeat /\ [][NextFeat]_vars

\* Optimization: rows below, near and above the activation density, with
\* speeds off the multiples of 10 and above the base limits
OptRowSeq ==
    <<Row(1, "00:00", F(74), F(1000), NaN),
      Row(1, "00:30", F(28), F(1400), F(15)),
      Row(1, "00:15", F(38), F(1444), F(12)),
      Row(1, "00:00", F(37), F(1332), F(10)),
      Row(2, "00:00", F(85), F(3400), F(12)),
      Row(2, "00:15", F(0), F(0), NaN),
      Row(2, "00:30", F(5), F(4000), F(-1))>>

OptRows == {OptRowSeq[k] : k \in DOMAIN OptRowSeq}

\* the place of a raw row in the file
FilePos(r) ==
    CHOOSE k \in DOMAIN OptRowSeq :
        OptRowSeq[k] = Row(r.id, r.fecha, r.vmed, r.intensidad, r.ocupacion)

\* the table lists its rows in the order of the file (a row may repeat)
InFileOrder(df) ==
    \A i \in 1..(Len(df) - 1) : FilePos(df[i]) <= FilePos(df[i + 1])

InitOpt == InitWith(OptRows, {NoFilter}, BOOLEAN) /\ InFileOrder(raw)

Overrides_k == {None, Some(F(40))}
Overrides_q == {None, Some(F(1500))}
BaseLimits == {20, 30, 70, 85, 90}

NextOpt ==
    \/ CleanData(raw)
    \/ CreateFeatures
    \/ \E kc \in Overrides_k, qm \in Overrides_q, base \in BaseLimits :
          NewOptimizer(kc, qm, base)
    \/ \E sensor_id \in {1, 2} : OptimizeTraffic(sensor_id)

SpecOpt == InitOpt /\ [][NextOpt]_vars

(***************************************************************************)
(* Claims about clean_data (checked under SpecClean).                      *)
(***************************************************************************)
\* the raw row behind a cleaned row: index labels are positions in raw
RawOf(r) == raw[r.idx]

InRange(x) ==
    /\ RGe(x.vmed, F(0)) /\ RLe(x.vmed, F(150))
    /\ RGe(x.intensidad, F(0)) /\ RLe(x.intensidad, F(12000))

\* the rows of the last argument that the sensor filter selects
Selected(df) == {i \in DOMAIN df : ~sensor_ids.given \/ df[i].id \in sensor_ids.ids}

\* C3: in every table clean_data returns, a row with speed 0 has flow 0;
\* every in-range raw row (of a selected sensor) with speed 0 and flow > 0
\* is in the output with flow 0; every output row with speed # 0 has the
\* flow of its raw row.
C3_ZeroSpeedZeroFlow ==
    clean_called =>
        /\ \A i \in DOMAIN df_clean :
              /\ REq(df_clean[i].vmed, F(0)) => REq(df_clean[i].intensidad, F(0))
              /\ ~REq(df_clean[i].vmed, F(0)) =>
                    df_clean[i].intensidad = RawOf(df_clean[i]).intensidad
        /\ \A j \in Selected(last_df) :
              (InRange(last_df[j]) /\ REq(last_df[j].vmed, F(0))
                    /\ RGt(last_df[j].intensidad, F(0))) =>
                 \E i \in DOMAIN df_clean :
                    /\ df_clean[i].idx = j
                    /\ df_clean[i].vmed = F(0)
                    /\ df_clean[i].intensidad = F(0)

\* a repaired row and an untouched row with speed # 0 in one output
C3_Witness ==
    /\ clean_called
    /\ \E i \in DOMAIN df_clean :
          /\ df_clean[i].vmed = F(0)
          /\ RGt(RawOf(df_clean[i]).intensidad, F(0))
          /\ df_clean[i].intensidad = F(0)
    /\ \E i \in DOMAIN df_clean : RGt(df_clean[i].vmed, F(0))

\* C4: every row clean_data returns has 0 <= speed <= 150 and
\* 0 <= flow <= 12000, and no raw row with a speed or flow outside those
\* ranges is in the output.
C4_RangeInvariant ==
    clean_called =>
        /\ \A i \in DOMAIN df_clean : InRange(df_clean[i])
        /\ \A j \in DOMAIN last_df :
              (\/ RLt(last_df[j].vmed, F(0)) \/ RGt(last_df[j].vmed, F(150))
               \/ RLt(last_df[j].intensidad, F(0)) \/ RGt(last_df[j].intensidad, F(12000))) =>
                 \A i \in DOMAIN df_clean : df_clean[i].idx # j

\* an out-of-range raw row was rejected and a row at the edge of the range kept
C4_Witness ==
    /\ clean_called
    /\ \E j \in Selected(last_df) : RGt(last_df[j].vmed, F(150))
    /\ \E j \in Selected(last_df) : RGt(last_df[j].intensidad, F(12000))
    /\ \E i \in DOMAIN df_clean : df_clean[i].vmed = F(150)

\* C5: in the table clean_data returns, no two rows of one sensor have the
\* same (parsed) timestamp.
C5_UniqueTimestamps ==
    clean_called =>
        \A i, j \in DOMAIN df_clean :
            (i # j /\ df_clean[i].id = df_clean[j].id /\ df_clean[i].fecha # NaT) =>
                df_clean[i].fecha # df_clean[j].fecha

\* the series of one sensor that the interpolation is meant to repair: its
\* selected rows in time order
Series(id) == SelectSeq(Sorted(last_df, sensor_ids), LAMBDA r : r.id = id)

Col(r, c) == IF c = "vmed" THEN r.vmed ELSE r.intensidad
Other(c) == IF c = "vmed" THEN "intensidad" ELSE "vmed"
ColInRange(r, c) ==
    RGe(Col(r, c), F(0)) /\ RLe(Col(r, c), IF c = "vmed" THEN F(150) ELSE F(12000))

\* row i of the series s lies in a run of rows that miss column c (their
\* other reading being valid) between the valid readings at p and q
InRun(s, c, i, p, q) ==
    /\ p < i /\ i < q
    /\ InRange(s[p]) /\ InRange(s[q])
    /\ \A k \in (p + 1)..(q - 1) :
          /\ IsNaN(Col(s[k], c))
          /\ ColInRange(s[k], Other(c))

\* C6: a row missing its speed or flow in a run of at most 2 missing rows
\* between two valid readings of its sensor is in the output with the
\* linearly interpolated value; in a longer run it is not in the output.
C6_BoundedInterpolation ==
    (clean_called /\ Len(last_df) > 0) =>
        \A id \in {last_df[j].id : j \in DOMAIN last_df} :
            LET s == Series(id)
            IN  \A c \in {"vmed", "intensidad"} :
                \A i, p, q \in DOMAIN s :
                    InRun(s, c, i, p, q) =>
                        IF q - p - 1 <= 2
                        THEN \E r \in DOMAIN df_clean :
                                /\ df_clean[r].idx = s[i].idx
                                /\ Col(df_clean[r], c) =
                                     RAdd(Col(s[p], c),
                                          RMul(RSub(Col(s[q], c), Col(s[p], c)),
                                               Rat(i - p, q - p)))
                        ELSE \A r \in DOMAIN df_clean : df_clean[r].idx # s[i].idx

\* C7: the report reflects only the most recent clean_data call: empty
\* after a call on an empty table, that run's metrics after a call on a
\* non-empty one.
C7_ReportOfLastCall ==
    clean_called =>
        IF Len(last_df) = 0
        THEN get_quality_report = EmptyReport /\ df_clean = <<>>
        ELSE get_quality_report = clean_data(last_df, sensor_ids).quality_report

\* the rows of the last argument, of a selected sensor, that the range
\* check rejects (a missing reading is out of range)
Rejected == {i \in Selected(last_df) : ~InRange(last_df[i])}

\* the accepted rows whose flow the repair sets to zero
Zeroed ==
    {i \in Selected(last_df) \ Rejected :
        last_df[i].vmed = F(0) /\ RGt(last_df[i].intensidad, F(0))}

\* the accepted rows that are not in the returned table
Unrepairable ==
    {i \in Selected(last_df) \ Rejected :
        \A r \in DOMAIN df_clean : df_clean[r].idx # last_df[i].idx}

\* C21: after a clean_data call on a non-empty table the report is
\* consistent with the run: final_rows is the number of rows returned,
\* outliers_removed the number of rows of the selected sensors the range
\* check rejected, logic_errors_fixed the number of rows whose flow was
\* zeroed, final_rows = initial_rows - outliers_removed - unrepairable
\* rows, and pct_data_kept = 100 x final_rows / initial_rows.
C21_ReportConsistent ==
    (clean_called /\ Len(last_df) > 0) =>
        LET rep == get_quality_report
        IN  /\ rep.final_rows = Len(df_clean)
            /\ rep.outliers_removed = Cardinality(Rejected)
            /\ rep.logic_errors_fixed = Cardinality(Zeroed)
            /\ rep.final_rows = rep.initial_rows - rep.outliers_removed
                                    - Cardinality(Unrepairable)
            /\ rep.pct_data_kept = Rat(100 * rep.final_rows, rep.initial_rows)

(***************************************************************************)
(* Claims about create_features (checked under SpecFeat).                  *)
(***************************************************************************)
\* C8 (as amended): a row is Fluido when speed > 70, Denso when
\* 40 < speed <= 70 and Congestion when speed <= 40; a speed of exactly 70
\* is Denso and a speed of exactly 40 is Congestion.
C8_StateThresholds ==
    \A i \in DOMAIN df_features :
        LET r == df_features[i]
        IN  /\ r.traffic_state = "Fluido" <=> RGt(r.vmed, F(70))
            /\ r.traffic_state = "Denso" <=> (RGt(r.vmed, F(40)) /\ RLe(r.vmed, F(70)))
            /\ r.traffic_state = "Congestion" <=> RLe(r.vmed, F(40))
            /\ r.vmed = F(70) => r.traffic_state = "Denso"
            /\ r.vmed = F(40) => r.traffic_state = "Congestion"

\* an enriched table with a row at each boundary
C8_Witness ==
    /\ \E i \in DOMAIN df_features : df_features[i].vmed = F(70)
    /\ \E i \in DOMAIN df_features : df_features[i].vmed = F(40)

\* C8 as stated: a speed of exactly 70 is Fluido and a speed of exactly 40
\* is Denso.
C8_Original ==
    \A i \in DOMAIN df_features :
        LET r == df_features[i]
        IN  r.traffic_state =
                IF RGe(r.vmed, F(70)) THEN "Fluido"
                ELSE IF RGe(r.vmed, F(40)) THEN "Denso"
                ELSE "Congestion"

C10_DensityRange ==
    \A i \in DOMAIN df_features :
        /\ ~IsNaN(df_features[i].density)
        /\ RGe(df_features[i].density, F(0))
        /\ RLe(df_features[i].density, F(500))

\* the (sensor id, timestamp, speed, flow) of a row
Observation(r) == <<r.id, r.fecha, r.vmed, r.intensidad>>

\* how many rows of the table carry the observation
Count(df, o) == Cardinality({i \in DOMAIN df : Observation(df[i]) = o})

\* C11: the table create_features returns has the row count of its input
\* and the same multiset of (sensor id, timestamp, speed, flow), it is
\* ordered by (sensor id, timestamp), and the input table is still what
\* clean_data returned.
C11_SameRowsSorted ==
    df_features # <<>> =>
        /\ Len(df_features) = Len(df_clean)
        /\ \A j \in DOMAIN df_clean :
              Count(df_features, Observation(df_clean[j]))
                  = Count(df_clean, Observation(df_clean[j]))
        /\ \A i \in 1..(Len(df_features) - 1) :
              ~KeyLess(df_features[i + 1], df_features[i])
        /\ df_clean = clean_data(raw, sensor_ids).df_clean

\* three rows of two sensors enriched, one of them without a density, the
\* first row of the result not being the first row loaded
C11_Witness ==
    /\ Len(df_features) = 3
    /\ {df_features[i].id : i \in DOMAIN df_features} = {1, 2}
    /\ \E i \in DOMAIN df_features : IsNaN(df_features[i].density)
    /\ df_features[1].idx # 1

\* C12: density_pred of a row is the density of the next row of the same
\* sensor, and on the last row of each sensor (a sensor with one row
\* included) it is the density of that row itself.
C12_ForecastOfOwnSensor ==
    \A i \in DOMAIN df_features :
        df_features[i].density_pred =
            IF i < Len(df_features) /\ df_features[i + 1].id = df_features[i].id
            THEN df_features[i + 1].density
            ELSE df_features[i].density

\* the row of the example: speed 30, flow 1200, occupancy 20
IsExampleRow(r) ==
    /\ has_ocupacion
    /\ r.vmed = F(30)
    /\ r.intensidad = F(1200)
    /\ r.ocupacion = F(20)

\* C19: an enriched row with speed 30, flow 1200 and occupancy 20 has the
\* density 1200 / 30 = 40 (its speed is above 10, so the occupancy is not
\* used) and the traffic state Congestion.
C19_ExampleRow ==
    \A i \in DOMAIN df_features :
        IsExampleRow(df_features[i]) =>
            /\ df_features[i].density = F(40)
            /\ df_features[i].traffic_state = "Congestion"

C19_Witness ==
    \E i \in DOMAIN df_features : IsExampleRow(df_features[i])

\* C19 as stated: the row has the occupancy-derived density 20 x 3.5 = 70
\* and the traffic state Congestion.
C19_Original ==
    \A i \in DOMAIN df_features :
        IsExampleRow(df_features[i]) =>
            /\ df_features[i].density = F(70)
            /\ df_features[i].traffic_state = "Congestion"

(***************************************************************************)
(* Claims about optimize_traffic (checked under SpecOpt).                  *)
(***************************************************************************)
\* C1: in every row optimize_traffic returns, the rounded optimized speed
\* is at least the observed speed of the row.
C1_NotBelowObserved ==
    \A i \in DOMAIN df_opt : RGe(F(df_opt[i].velocidad_opt), df_opt[i].vmed)

\* C2: in every row optimize_traffic returns, the rounded optimized speed
\* is at most the base speed limit of the optimizer.
C2_NotAboveBaseLimit ==
    \A i \in DOMAIN df_opt : df_opt[i].velocidad_opt <= df_opt[i].base_speed_limit

\* the rows the estimator keeps: dropna(subset=['density', 'intensidad'])
ValidPairs(df) == SelectSeq(df, LAMBDA r : ~IsNaN(r.density) /\ ~IsNaN(r.intensidad))

\* whether the last optimize_traffic call estimated the critical density
EstimatedCriticalDensity == df_opt # <<>> /\ ~optimizer.critical_density.given

\* C13: when the table passed to calculate_critical_density has fewer than
\* two (density, flow) points, the estimate is the fallback 40.0.
C13_FallbackBelowTwoPoints ==
    (EstimatedCriticalDensity /\ Len(ValidPairs(opt_input)) < 2) =>
        \A i \in DOMAIN df_opt : df_opt[i].k_crit = F(40)

\* the lower edges a bucket of width 5 can have for a density up to 500
BucketEdges == {5 * k : k \in -2..100}

\* the valid pairs whose density is in [b, b + 5)
Bucket(df, b) ==
    SelectSeq(ValidPairs(df),
              LAMBDA r : RGe(r.density, F(b)) /\ RLt(r.density, F(b + 5)))

MeanFlow(g) == RDiv(SumFlow(g), F(Len(g)))

\* C14: with at least one valid pair, the estimate is the lower edge of a
\* non-empty bucket of width 5 whose mean flow no other bucket exceeds
\* (the lowest such bucket when several have that mean flow).
C14_PeakBucketFloor ==
    (EstimatedCriticalDensity /\ Len(ValidPairs(opt_input)) > 0) =>
        \E b \in BucketEdges :
            /\ \A i \in DOMAIN df_opt : df_opt[i].k_crit = F(b)
            /\ Bucket(opt_input, b) # <<>>
            /\ \A c \in BucketEdges :
                  Bucket(opt_input, c) # <<>> =>
                      /\ RLe(MeanFlow(Bucket(opt_input, c)), MeanFlow(Bucket(opt_input, b)))
                      /\ (MeanFlow(Bucket(opt_input, c)) = MeanFlow(Bucket(opt_input, b))
                              => b <= c)

\* two buckets: the one of the estimate has the higher mean flow, the other
\* holds two rows, one of them with a flow above that mean
C14_Witness ==
    /\ EstimatedCriticalDensity
    /\ \E b, c \in BucketEdges :
          /\ df_opt[1].k_crit = F(b)
          /\ Len(Bucket(opt_input, c)) = 2
          /\ RLt(MeanFlow(Bucket(opt_input, c)), MeanFlow(Bucket(opt_input, b)))
          /\ \E i \in 1..2 :
                RGt(Bucket(opt_input, c)[i].intensidad, MeanFlow(Bucket(opt_input, b)))

\* whether the density of an output row is strictly above 0.9 x the
\* critical density of the call
VslActive(r) == RGt(r.density, RMul(r.k_crit, Rat(9, 10)))

\* C15: a row is active exactly when its density is strictly above
\* 0.9 x the critical density: limite_dinamico is the base limit on an
\* inactive row, and on an active row it is 70 for a base of 90, 50 for a
\* base of 70 and 30 for a lower base (a base between 70 and 90 takes 50).
C15_ActivationAndLadder ==
    \A i \in DOMAIN df_opt :
        LET r == df_opt[i]
        IN  IF VslActive(r)
            THEN /\ r.base_speed_limit = 90 => r.limite_dinamico = 70
                 /\ r.base_speed_limit \in 70..89 => r.limite_dinamico = 50
                 /\ r.base_speed_limit < 70 => r.limite_dinamico = 30
            ELSE r.limite_dinamico = r.base_speed_limit

\* base 90 and critical density 40: a row of density 38 with the limit 70
\* next to a row of density 36, the threshold itself, with the limit 90
C15_Witness ==
    /\ \E i \in DOMAIN df_opt :
          /\ df_opt[i].base_speed_limit = 90
          /\ df_opt[i].k_crit = F(40)
          /\ df_opt[i].density = F(38)
          /\ df_opt[i].limite_dinamico = 70
    /\ \E i \in DOMAIN df_opt :
          /\ df_opt[i].density = F(36)
          /\ df_opt[i].limite_dinamico = 90

\* C16: on every inactive row the optimized flow is the observed flow and
\* the optimized speed is the observed speed.
C16_InactivePassThrough ==
    \A i \in DOMAIN df_opt :
        ~VslActive(df_opt[i]) =>
            /\ df_opt[i].intensidad_opt = df_opt[i].intensidad
            /\ F(df_opt[i].velocidad_opt) = df_opt[i].vmed

\* C17: on every active row the optimized flow is the smaller of
\* flow x 1.08 and the capacity of the call, so it is never above the
\* capacity.
C17_FlowCappedAtCapacity ==
    \A i \in DOMAIN df_opt :
        LET r == df_opt[i]
            scaled == RMul(r.intensidad, Rat(108, 100))
        IN  VslActive(r) =>
                /\ r.intensidad_opt = IF RLt(r.q_max, scaled) THEN r.q_max ELSE scaled
                /\ RLe(r.intensidad_opt, r.q_max)

\* an active row whose observed flow is above the capacity, and an active
\* row whose flow is below it and is scaled by 1.08
C17_Witness ==
    /\ \E i \in DOMAIN df_opt :
          /\ VslActive(df_opt[i])
          /\ RGt(df_opt[i].intensidad, df_opt[i].q_max)
          /\ df_opt[i].intensidad_opt = df_opt[i].q_max
    /\ \E i \in DOMAIN df_opt :
          /\ VslActive(df_opt[i])
          /\ RGt(df_opt[i].intensidad, F(0))
          /\ RLt(df_opt[i].intensidad_opt, df_opt[i].q_max)

\* the parameters of the last call: the override when one was given at
\* construction, else the estimate from the table of that call
UsesOverrideOrOwnEstimate ==
    \A i \in DOMAIN df_opt :
        /\ df_opt[i].k_crit =
              IF optimizer.critical_density.given
              THEN optimizer.critical_density.value
              ELSE calculate_critical_density(opt_input)
        /\ df_opt[i].q_max =
              IF optimizer.max_capacity.given
              THEN optimizer.max_capacity.value
              ELSE calculate_max_capacity(opt_input)

\* a step leaves the constructed optimizer and the enriched table as they are
NothingStored ==
    /\ optimizer.constructed => optimizer' = optimizer
    /\ df_features # <<>> => df_features' = df_features

\* C18: every call uses the overrides given at construction and otherwise
\* the estimates from its own input table; no call changes the optimizer
\* (so no estimate is stored on it) or the table it was given.
C18_OverrideOrOwnEstimate ==
    [](UsesOverrideOrOwnEstimate) /\ [][NothingStored]_vars

\* a call without overrides on one sensor while the table of the other
\* sensor has a different estimate of both parameters
C18_Witness ==
    /\ EstimatedCriticalDensity
    /\ ~optimizer.max_capacity.given
    /\ LET other == SelectSeq(df_features, LAMBDA r : r.id # opt_input[1].id)
       IN  /\ other # <<>>
           /\ calculate_critical_density(other) # df_opt[1].k_crit
           /\ calculate_max_capacity(other) # df_opt[1].q_max

\* C20: in every output row limite_dinamico is at most the base limit, and
\* it is below the base limit exactly when the row is active.
C20_LimitBelowBaseIffActive ==
    \A i \in DOMAIN df_opt :
        /\ df_opt[i].limite_dinamico <= df_opt[i].base_speed_limit
        /\ (df_opt[i].limite_dinamico < df_opt[i].base_speed_limit) <=> VslActive(df_opt[i])

====
